---------------------------- MODULE Spec2Model ----------------------------
(***************************************************************************)
(* Research Literature Navigator: the self-contained Flask application of  *)
(* simple_app.py (SimpleResearchNavigator and its routes), served by       *)
(* several request threads that share one navigator object.                *)
(*                                                                         *)
(* Text is modelled as a sequence of tokens.  A token is either a word (a  *)
(* maximal run of non-whitespace characters) or one whitespace character   *)
(* (" " or "\n").  TokLen gives the number of characters of a token, so    *)
(* the character counts of create_chunks keep their real values.           *)
(*                                                                         *)
(* A Python float that is the quotient of two small integers is modelled   *)
(* by the reduced fraction <<num, den>>: IEEE division is correctly        *)
(* rounded, so equal fractions give equal floats and the order of the      *)
(* fractions is the order of the floats.  Sums and the mean are exact      *)
(* rationals; the ".2f"/".3f" formatting is rounding to the nearest        *)
(* hundredth / thousandth with ties to even.                               *)
(*                                                                         *)
(* The second part models the core components the other applications       *)
(* (web_app.py, test_system.py, demo.py) call and whose code is not among  *)
(* the sources: the chunking and embedding pipeline, the vector store, the *)
(* section-aware retriever and the duplicate detector.  They are modelled  *)
(* from the specification and run in a specification of their own,         *)
(* SpecCore, in which the application above stays idle.                    *)
(*                                                                         *)
(* The third part has create_chunks called on its own over every small     *)
(* content and chunk size (SpecChunks), and the test runner of             *)
(* test_system.py, SystemTester.run_full_test_suite (SpecSuite).           *)
(***************************************************************************)
EXTENDS Integers, Sequences, FiniteSets, TLC

\* ------------------------------------------------------------------ bounds

\* upload requests are accepted by the model while len(documents) < MaxDocs
MaxDocs == 2

\* the request threads of the (threaded) Flask development server
Threads == {"t1", "t2"}

\* ------------------------------------------------------- program constants

\* create_chunks(self, content, chunk_size=800)
chunk_size == 800

\* nav.search_documents(question, top_k=5)
top_k == 5

\* result['content'][:200]
SnippetLen == 200

\* min(avg_similarity * 1.5, 1.0), as the fraction ConfNum / ConfDen
ConfNum == 3

ConfDen == 2

\* ------------------------------------------------------------------- text

Whitespace == {" ", "\n"}

\* a 799-character word: with its separator it fills one chunk by itself
LongWords == {"W799"}

TokLen(w) == IF w \in LongWords THEN 799 ELSE Len(w)

RECURSIVE StrLen(_)
StrLen(s) == IF s = <<>> THEN 0 ELSE TokLen(Head(s)) + StrLen(Tail(s))

\* str.lower() on one token
LowerTok(w) ==
    CASE w = "Rag"       -> "rag"
      [] w = "RAG"       -> "rag"
      [] w = "Document"  -> "document"
      [] w = "Please"    -> "please"
      [] w = "PyPDF2"    -> "pypdf2"
      [] w = "B.PDF."    -> "b.pdf."
      [] w = "W799"      -> "w799"
      [] OTHER           -> w

\* str.lower()
Lower(s) == [i \in 1..Len(s) |-> LowerTok(s[i])]

IsWord(w) == w \notin Whitespace

\* str.split(): the words, whitespace dropped
Split(s) == SelectSeq(s, IsWord)

\* " ".join(words)
RECURSIVE Join(_)
Join(ws) ==
    IF ws = <<>> THEN <<>>
    ELSE IF Len(ws) = 1 THEN ws
    ELSE <<Head(ws), " ">> \o Join(Tail(ws))

RECURSIVE LStrip(_)
LStrip(s) == IF s # <<>> /\ Head(s) \in Whitespace THEN LStrip(Tail(s)) ELSE s

RECURSIVE RStrip(_)
RStrip(s) ==
    IF s # <<>> /\ s[Len(s)] \in Whitespace
    THEN RStrip(SubSeq(s, 1, Len(s) - 1)) ELSE s

\* mutant: the question is taken as it is sent
StripNothing(s) == s

\* str.strip()
Strip(s) == RStrip(LStrip(s))

Range(s) == {s[i] : i \in 1..Len(s)}

\* ------------------------------------------------------------- arithmetic

Min(a, b) == IF a <= b THEN a ELSE b

RECURSIVE GCD(_, _)
GCD(a, b) ==
    IF b = 0 THEN a ELSE CHOOSE g \in {GCD(b, r) : r \in {a % b}} : TRUE

\* the float n / d (d > 0, n >= 0), as a reduced fraction (written so that
\* each operand is evaluated once)
Frac(n, d) ==
    CHOOSE f \in {<<nn \div g, dd \div g>> :
                     <<nn, dd, g>> \in {<<n, d, GCD(n, d)>>}} : TRUE

FracLeq(x, y) == x[1] * y[2] <= y[1] * x[2]

FracAdd(x, y) ==
    CHOOSE f \in {Frac(a[1] * b[2] + b[1] * a[2], a[2] * b[2]) :
                     <<a, b>> \in {<<x, y>>}} : TRUE

\* the integer nearest to n / d, ties to even
RoundHalfEven(n, d) ==
    LET q == n \div d
        r == n % d
    IN  IF 2 * r < d THEN q
        ELSE IF 2 * r > d THEN q + 1
        ELSE IF q % 2 = 0 THEN q ELSE q + 1

\* f"{x:.3f}" of the float x, in thousandths
Fmt3(x) == RoundHalfEven(1000 * x[1], x[2])

\* f"{x:.2f}" of the float x, in hundredths
Fmt2(x) == RoundHalfEven(100 * x[1], x[2])

\* ------------------------------------------------ SimpleResearchNavigator

\* mutant: the words left in current_chunk after the loop are not returned
RECURSIVE ChunkLoopDropsRest(_, _, _, _, _)
ChunkLoopDropsRest(words, current_chunk, current_size, chunks, size) ==
    IF words = <<>>
    THEN chunks
    ELSE LET cc == Append(current_chunk, Head(words))
             cs == current_size + TokLen(Head(words)) + 1
         IN  IF cs >= size
             THEN ChunkLoopDropsRest(Tail(words), <<>>, 0,
                                     Append(chunks, Join(cc)), size)
             ELSE ChunkLoopDropsRest(Tail(words), cc, cs, chunks, size)

\* the loop of create_chunks over the words not read yet, and the lines
\* after it; size is the chunk_size argument
RECURSIVE ChunkLoop(_, _, _, _, _)
ChunkLoop(words, current_chunk, current_size, chunks, size) ==
    IF words = <<>>
    THEN IF current_chunk # <<>>
         THEN Append(chunks, Join(current_chunk))
         ELSE chunks
    ELSE LET cc == Append(current_chunk, Head(words))
             cs == current_size + TokLen(Head(words)) + 1
         IN  IF cs >= size
             THEN ChunkLoop(Tail(words), <<>>, 0, Append(chunks, Join(cc)), size)
             ELSE ChunkLoop(Tail(words), cc, cs, chunks, size)

\* create_chunks(content, chunk_size=size): the list of chunk strings
create_chunks_sized(content, size) ==
    ChunkLoop(Split(content), <<>>, 0, <<>>, size)

\* create_chunks(content), as add_document calls it
create_chunks(content) == create_chunks_sized(content, chunk_size)

\* mutant: the ratio upside down
SimilarityInverted(query_words, chunk_words) ==
    Frac(Cardinality(query_words \cup chunk_words),
         Cardinality(query_words \cap chunk_words))

\* similarity = overlap / len(query_words | chunk_words), for overlap > 0
Similarity(query_words, chunk_words) ==
    Frac(Cardinality(query_words \cap chunk_words),
         Cardinality(query_words \cup chunk_words))

\* the rows search_documents appends for one document, in chunk order
RECURSIVE ChunkRows(_, _, _)
ChunkRows(doc, chunks, query_words) ==
    IF chunks = <<>> THEN <<>>
    ELSE LET chunk       == Head(chunks)
             chunk_words == Range(Split(Lower(chunk)))
             overlap     == Cardinality(query_words \cap chunk_words)
             rest        == ChunkRows(doc, Tail(chunks), query_words)
         IN  IF overlap > 0
             THEN <<[title      |-> doc.title,
                     content    |-> chunk,
                     similarity |-> Similarity(query_words, chunk_words)]>>
                  \o rest
             ELSE rest

RECURSIVE AllRows(_, _)
AllRows(docs, query_words) ==
    IF docs = <<>> THEN <<>>
    ELSE ChunkRows(Head(docs), Head(docs).chunks, query_words)
         \o AllRows(Tail(docs), query_words)

\* one step of the stable descending sort: r goes after every row whose
\* similarity is >= its own
RECURSIVE InsertDesc(_, _)
InsertDesc(sorted, r) ==
    IF sorted = <<>> THEN <<r>>
    ELSE IF FracLeq(r.similarity, Head(sorted).similarity)
         THEN <<Head(sorted)>> \o InsertDesc(Tail(sorted), r)
         ELSE <<r>> \o sorted

\* results.sort(key=lambda x: x["similarity"], reverse=True)
RECURSIVE SortDesc(_)
SortDesc(rows) ==
    IF rows = <<>> THEN <<>>
    ELSE InsertDesc(SortDesc(SubSeq(rows, 1, Len(rows) - 1)), rows[Len(rows)])

\* mutant: the slice [:top_k] left out
SearchUntruncated(docs, query, k) ==
    SortDesc(AllRows(docs, Range(Split(Lower(query)))))

\* search_documents(query, top_k)
search_documents(docs, query, k) ==
    LET query_words == Range(Split(Lower(query)))
        results     == SortDesc(AllRows(docs, query_words))
    IN  SubSeq(results, 1, Min(k, Len(results)))


\* str(e) of an exception raised by generate_content
BackendErrors == {"503 unavailable"}

\* response.text of a successful generate_content call ("" is falsy)
BackendTexts == {"", "Retrieval augmented generation is ..."}

NoPrompt == [built |-> FALSE]

\* the context generate_answer puts into the prompt: one (Source, Content)
\* entry per element of context_results, in order
PromptOf(question, context_results) ==
    [built    |-> TRUE,
     question |-> question,
     context  |-> [i \in 1..Len(context_results) |->
                     [source  |-> context_results[i].title,
                      content |-> context_results[i].content]]]

\* generate_answer(question, context_results): the possible outcomes
\* <<answer, prompt sent to the backend, what the backend did>>.
\* `m` is self.model.
generate_answer(m, question, context_results) ==
    IF ~m
    THEN {<<"Gemini model not available. Please check API key.", NoPrompt,
            "unavailable">>}
    ELSE LET p == PromptOf(question, context_results)
         IN  {<<IF txt # "" THEN txt ELSE "No response generated.", p,
                "returned">> : txt \in BackendTexts}
             \cup {<<"Error generating answer: " \o e, p, "raised">> :
                        e \in BackendErrors}

\* ------------------------------------------------------------ the routes

\* mutant: the citations listed in the opposite order of the evidence
SourcesReversed(search_results) ==
    LET n == Len(search_results)
    IN  [i \in 1..n |->
            [title      |-> search_results[n + 1 - i].title,
             section    |-> "Content",
             similarity |-> Fmt3(search_results[n + 1 - i].similarity),
             content    |-> [of   |-> search_results[n + 1 - i].content,
                             upto |-> Min(SnippetLen,
                                          StrLen(search_results[n + 1 - i].content)),
                             more |-> "..."]]]

\* 'sources' of /query
Sources(search_results) ==
    [i \in 1..Len(search_results) |->
        [title      |-> search_results[i].title,
         section    |-> "Content",
         similarity |-> Fmt3(search_results[i].similarity),
         content    |-> [of   |-> search_results[i].content,
                         upto |-> Min(SnippetLen,
                                      StrLen(search_results[i].content)),
                         more |-> "..."]]]

RECURSIVE SumSim(_)
SumSim(rs) ==
    IF rs = <<>> THEN <<0, 1>>
    ELSE FracAdd(Head(rs).similarity, SumSim(Tail(rs)))

\* avg_similarity = sum(r['similarity'] for r in search_results) / len(...)
AvgSimilarity(search_results) ==
    LET s == SumSim(search_results)
    IN  Frac(s[1], s[2] * Len(search_results))

\* mutant: the cap min(..., 1.0) left out
ConfidenceUncapped(search_results) ==
    LET avg == AvgSimilarity(search_results)
    IN  Fmt2(Frac(ConfNum * avg[1], ConfDen * avg[2]))

\* f"{min(avg_similarity * 1.5, 1.0):.2f}", in hundredths
Confidence(search_results) ==
    LET avg    == AvgSimilarity(search_results)
        scaled == Frac(ConfNum * avg[1], ConfDen * avg[2])
    IN  Fmt2(IF FracLeq(scaled, <<1, 1>>) THEN scaled ELSE <<1, 1>>)

RECURSIVE TotalChunks(_)
TotalChunks(docs) ==
    IF docs = <<>> THEN 0
    ELSE Len(Head(docs).chunks) + TotalChunks(Tail(docs))

\* ------------------------------------------------------------ the inputs

\* file names of the multipart 'file' part
Filenames == {"a.pdf", "B.PDF", "", "notes.txt"}

\* file.filename.lower().endswith('.pdf')
EndsWithPdf(fn) == fn \in {"a.pdf", "B.PDF"}

\* filename.replace('.pdf', '')
Title(fn) == IF fn = "a.pdf" THEN "a" ELSE fn

\* an uploaded file, by what PyPDF2 makes of it: the text of each page, or
\* a file PdfReader raises on
BadPdf == [ok |-> FALSE]

EmptyPdf == [ok |-> TRUE, pages |-> << <<>> >>]

SmallPdf == [ok |-> TRUE, pages |-> << <<"Rag", " ", "llm">> >>]

\* two pages; create_chunks makes "W799", "rag W799" and "rag" of them
BigPdf == [ok |-> TRUE, pages |-> << <<"W799", " ", "rag">>, <<"W799", " ", "rag">> >>]

Pdfs == {BadPdf, EmptyPdf, SmallPdf, BigPdf}

\* the (filename, file) pairs of the upload requests that pass validation
Uploads ==
    {<<"a.pdf", BigPdf>>, <<"a.pdf", EmptyPdf>>,
     <<"B.PDF", SmallPdf>>, <<"B.PDF", BadPdf>>}

\* content = ""; for page in pages: content += page.extract_text() + "\n"
RECURSIVE ExtractText(_)
ExtractText(pages) ==
    IF pages = <<>> THEN <<>>
    ELSE Head(pages) \o <<"\n">> \o ExtractText(Tail(pages))

\* f"Document uploaded: {filename}. Please install PyPDF2 for text extraction."
Fallback(fn) ==
    <<"Document", " ", "uploaded:", " ", fn \o ".", " ", "Please", " ",
      "install", " ", "PyPDF2", " ", "for", " ", "text", " ", "extraction.">>

\* request bodies of POST /query, by what request.get_json() returns
QueryBodies ==
    {[json |-> "null"],
     [json |-> "object", has |-> FALSE],
     [json |-> "object", has |-> TRUE, type |-> "number"]}
    \cup {[json |-> "object", has |-> TRUE, type |-> "str", question |-> q] :
            q \in {<<>>, <<" ">>,
                   <<"zzz">>,
                   <<" ", "RAG", " ">>,
                   <<"w799", " ", "rag">>}}

\* ------------------------------------------------------------- the state

VARIABLES
    documents,   \* nav.documents
    disk,        \* data/documents.json
    papers,      \* data/papers/<filename>
    model,       \* nav.model is not None
    pypdf2,      \* "import PyPDF2" succeeds
    logged,      \* save_documents has logged "Error saving documents"
    pc,          \* where each request thread is
    loc,         \* the local variables of the request a thread serves
    sent,        \* the prompt the request passed to generate_content
    resp,        \* the response a finished request returns
    vector_store,  \* the records of the Vector Store, one per chunk id
    job,           \* the process_single_document call that is running
    embed_calls,   \* the embedding-backend calls of that call, in order
    core_out,      \* what the last operation on the core components returned
    call,          \* a call of create_chunks: its arguments and what it returns
    suite          \* the SystemTester of test_system.py and its test run

\* the state of the application of simple_app.py
app == <<documents, disk, papers, model, pypdf2, logged, pc, loc, sent, resp>>

\* the state of the core components (pipeline, store, retriever, detector)
core == <<vector_store, job, embed_calls, core_out>>

\* the state of what runs apart from both: a function called on its own,
\* the test script
apart == <<call, suite>>

vars == <<documents, disk, papers, model, pypdf2, logged, pc, loc, sent, resp,
          core, apart>>

\* a file that does not exist
Absent == [file |-> "absent"]

\* documents.json holding the text json.dump makes of the list docs
Written(docs) == [file |-> "json", documents |-> docs]

\* documents.json holding no JSON text: as many bytes as the text of docs
\* has, or none (a file just truncated) when docs is empty
Damaged(docs) == [file |-> "damaged", documents |-> docs]

NoLoc  == [kind |-> "none"]
NoResp == [status |-> 0]

NoJob == [running |-> FALSE]
NoOut == [op |-> "none"]

NoCall  == [state |-> "none"]
NoSuite == [pc |-> "none"]

\* the core components as constructed: an empty store, nothing running
CoreIdle ==
    /\ vector_store = {}
    /\ job = NoJob
    /\ embed_calls = <<>>
    /\ core_out = NoOut

\* no function is called on its own and no test script runs
ApartIdle ==
    /\ call = NoCall
    /\ suite = NoSuite

Others(t) == Threads \ {t}

Init ==
    /\ documents = <<>>
    /\ disk = Absent
    /\ papers = [fn \in {f \in Filenames : EndsWithPdf(f)} |-> Absent]
    /\ model \in BOOLEAN
    /\ pypdf2 \in BOOLEAN
    /\ logged = FALSE
    /\ pc = [t \in Threads |-> "idle"]
    /\ loc = [t \in Threads |-> NoLoc]
    /\ sent = [t \in Threads |-> NoPrompt]
    /\ resp = [t \in Threads |-> NoResp]
    /\ CoreIdle
    /\ ApartIdle

Reply(t, r) ==
    /\ pc' = [pc EXCEPT ![t] = "done"]
    /\ resp' = [resp EXCEPT ![t] = r]

Goto(t, label, l) ==
    /\ pc' = [pc EXCEPT ![t] = label]
    /\ loc' = [loc EXCEPT ![t] = l]
    /\ resp' = resp

\* uploads that have been accepted and have not appended their document yet
Pending == {t \in Threads : pc[t] \in {"u_extract", "u_add"}}

\* ------------------------------------------------------- POST /upload

\* 'file' not in request.files, or a filename that is empty or no .pdf
UploadReject(t) ==
    /\ pc[t] = "idle"
    /\ \E hasFile \in BOOLEAN, fn \in Filenames :
         /\ ~hasFile \/ fn = "" \/ ~EndsWithPdf(fn)
         /\ Reply(t, [status |-> 400,
                      error  |-> IF ~hasFile THEN "No file provided"
                                 ELSE "Please select a PDF file"])
    /\ UNCHANGED <<documents, disk, papers, model, pypdf2, logged, core,
                   apart, loc, sent>>

\* file.save(str(filepath)); an OSError goes to the handler's except
UploadSave(t) ==
    /\ pc[t] = "idle"
    /\ Len(documents) + Cardinality(Pending) < MaxDocs
    /\ \E up \in Uploads :
         LET fn == up[1]  pdf == up[2] IN
         /\ fn # "" /\ EndsWithPdf(fn)
         /\ \/ /\ papers' = [papers EXCEPT ![fn] = pdf]
               /\ Goto(t, "u_extract", [kind |-> "upload", filename |-> fn])
            \/ /\ papers' = papers
               /\ loc' = loc
               /\ Reply(t, [status |-> 500,
                            error  |-> "Error uploading document: save"])
    /\ UNCHANGED <<documents, disk, model, pypdf2, logged, core, apart, sent>>

\* mutant: a file PdfReader raises on is answered 500 and still added to
\* the collection, with no text
UploadExtractKeepsStub(t) ==
    /\ pc[t] = "u_extract"
    /\ LET fn  == loc[t].filename
           pdf == papers[fn]
       IN  IF ~pypdf2
           THEN /\ Goto(t, "u_add", [kind |-> "upload", filename |-> fn,
                                     content |-> Fallback(fn)])
                /\ documents' = documents
           ELSE IF ~pdf.ok
           THEN /\ Reply(t, [status |-> 500,
                             error  |-> "Error uploading document: read"])
                /\ loc' = [loc EXCEPT ![t] = NoLoc]
                /\ documents' = Append(documents,
                                       [filename |-> fn, title |-> Title(fn),
                                        content |-> <<>>, chunks |-> <<>>])
           ELSE /\ Goto(t, "u_add", [kind |-> "upload", filename |-> fn,
                                     content |-> ExtractText(pdf.pages)])
                /\ documents' = documents
    /\ UNCHANGED <<disk, papers, model, pypdf2, logged, core, apart, sent>>

\* the text extraction: PyPDF2 over the saved file, or the ImportError
\* fallback; PdfReader raising goes to the handler's except
UploadExtract(t) ==
    /\ pc[t] = "u_extract"
    /\ LET fn  == loc[t].filename
           pdf == papers[fn]
       IN  IF ~pypdf2
           THEN Goto(t, "u_add", [kind |-> "upload", filename |-> fn,
                                  content |-> Fallback(fn)])
           ELSE IF ~pdf.ok
           THEN /\ Reply(t, [status |-> 500,
                             error  |-> "Error uploading document: read"])
                /\ loc' = [loc EXCEPT ![t] = NoLoc]
           ELSE Goto(t, "u_add", [kind |-> "upload", filename |-> fn,
                                  content |-> ExtractText(pdf.pages)])
    /\ UNCHANGED <<documents, disk, papers, model, pypdf2, logged, core,
                   apart, sent>>

\* mutant: the document is appended when the first of its chunks is made
UploadAddChunkwise(t) ==
    /\ pc[t] = "u_add"
    /\ LET content == loc[t].content
           chunks  == create_chunks(content)
           doc     == [filename |-> loc[t].filename,
                       title    |-> Title(loc[t].filename),
                       content  |-> content,
                       chunks   |-> SubSeq(chunks, 1, Min(1, Len(chunks)))]
       IN  /\ documents' = Append(documents, doc)
           /\ Goto(t, "u_save", [kind |-> "upload", doc |-> doc])
    /\ UNCHANGED <<disk, papers, model, pypdf2, logged, core, apart, sent>>

\* the document add_document builds
NewDoc(filename, title, content) ==
    [filename |-> filename,
     title    |-> title,
     content  |-> content,
     chunks   |-> create_chunks(content)]

\* add_document up to self.documents.append(doc)
UploadAdd(t) ==
    /\ pc[t] = "u_add"
    /\ LET doc == NewDoc(loc[t].filename, Title(loc[t].filename), loc[t].content)
       IN  /\ documents' = Append(documents, doc)
           /\ Goto(t, "u_save", [kind |-> "upload", doc |-> doc])
    /\ UNCHANGED <<disk, papers, model, pypdf2, logged, core, apart, sent>>

\* 'message', 'title', 'chunks' of a successful upload
UploadOk(doc) ==
    [status  |-> 200,
     message |-> "Successfully processed " \o doc.filename,
     title   |-> doc.title,
     chunks  |-> Len(doc.chunks)]

\* what the file holds once a writer that has it open writes the text of
\* buffer from offset 0 and closes: the text replaces the bytes it covers.
\* Writers hold snapshots of one list that only grows, so of two texts the
\* one of the shorter list is the shorter; its end, laid over the longer
\* text, leaves no JSON.
Overlay(file, buffer) ==
    IF Len(buffer) >= Len(file.documents)
    THEN Written(buffer)
    ELSE Damaged(file.documents)

\* save_documents up to the end of json.dump: open(..., "w") creates or
\* truncates the file, json.dump encodes self.documents as it is now into
\* the buffer of the file object
SaveDocuments(t) ==
    /\ pc[t] = "u_save"
    /\ disk' = Damaged(<<>>)
    /\ Goto(t, "u_flush", [kind |-> "upload", doc |-> loc[t].doc,
                            buffer |-> documents])
    /\ UNCHANGED <<documents, papers, model, pypdf2, logged, core, apart, sent>>

\* the end of the with block of save_documents: the buffer is written to
\* the file and the file is closed; add_document returns and the upload
\* answers 200
FlushDocuments(t) ==
    /\ pc[t] = "u_flush"
    /\ disk' = Overlay(disk, loc[t].buffer)
    /\ Reply(t, UploadOk(loc[t].doc))
    /\ loc' = [loc EXCEPT ![t] = NoLoc]
    /\ UNCHANGED <<documents, papers, model, pypdf2, logged, core, apart, sent>>

\* save_documents when open raises (the file cannot be created or written):
\* the exception is logged and swallowed, the file is as it was, and the
\* upload answers 200
SaveDocumentsFails(t) ==
    /\ pc[t] = "u_save"
    /\ logged' = TRUE
    /\ Reply(t, UploadOk(loc[t].doc))
    /\ loc' = [loc EXCEPT ![t] = NoLoc]
    /\ UNCHANGED <<documents, disk, papers, model, pypdf2, core, apart, sent>>

\* save_documents when the write raises (the disk is full): the file is left
\* with part of the text, the exception is logged and swallowed, and the
\* upload answers 200
FlushDocumentsFails(t) ==
    /\ pc[t] = "u_flush"
    /\ disk' = Damaged(disk.documents)
    /\ logged' = TRUE
    /\ Reply(t, UploadOk(loc[t].doc))
    /\ loc' = [loc EXCEPT ![t] = NoLoc]
    /\ UNCHANGED <<documents, papers, model, pypdf2, core, apart, sent>>

\* load_documents at the next start of the application: self.documents is
\* [] when the file does not exist, what json.load makes of the file when it
\* holds JSON (lists of dictionaries of strings, which json.dump and
\* json.load carry over unchanged), and [] when json.load raises
load_documents(file) ==
    IF file.file = "json" THEN file.documents ELSE <<>>

\* ---------------------------------------------------- GET /stats, GET /

\* get_stats: total_chunks = sum(len(doc["chunks"]) for doc in nav.documents)
StatsChunks(t) ==
    /\ pc[t] = "idle"
    /\ Goto(t, "s_docs", [kind |-> "stats", total_chunks |-> TotalChunks(documents)])
    /\ UNCHANGED <<documents, disk, papers, model, pypdf2, logged, core,
                   apart, sent>>

\* get_stats: the stats dictionary, len(nav.documents) read now
StatsDocs(t) ==
    /\ pc[t] = "s_docs"
    /\ Reply(t, [status |-> 200,
                 unique_documents |-> Len(documents),
                 total_chunks |-> loc[t].total_chunks,
                 section_distribution |->
                     IF loc[t].total_chunks > 0
                     THEN [s \in {"content"} |-> loc[t].total_chunks]
                     ELSE <<>>])
    /\ loc' = [loc EXCEPT ![t] = NoLoc]
    /\ UNCHANGED <<documents, disk, papers, model, pypdf2, logged, core,
                   apart, sent>>

\* index: "unique_documents": len(nav.documents)
IndexDocs(t) ==
    /\ pc[t] = "idle"
    /\ Goto(t, "i_chunks", [kind |-> "index", unique_documents |-> Len(documents)])
    /\ UNCHANGED <<documents, disk, papers, model, pypdf2, logged, core,
                   apart, sent>>

\* index: "total_chunks": sum(...), then the page is rendered
IndexChunks(t) ==
    /\ pc[t] = "i_chunks"
    /\ Reply(t, [status |-> 200,
                 page   |-> "index.html",
                 unique_documents |-> loc[t].unique_documents,
                 total_chunks |-> TotalChunks(documents)])
    /\ loc' = [loc EXCEPT ![t] = NoLoc]
    /\ UNCHANGED <<documents, disk, papers, model, pypdf2, logged, core,
                   apart, sent>>

\* -------------------------------------------------------- POST /query

\* data.get('question', '') of a body that is a JSON object
QuestionOf(body) == IF body.has THEN body.question ELSE <<>>

\* the request never reaches the search: None.get / int.strip raise (500),
\* an empty question is answered 400
QueryReject(t) ==
    /\ pc[t] = "idle"
    /\ \E body \in QueryBodies :
         IF body.json = "null" \/ (body.has /\ body.type # "str")
         THEN /\ Reply(t, [status |-> 500, error |-> "Error processing query"])
              /\ loc' = loc
         ELSE /\ Strip(QuestionOf(body)) = <<>>
              /\ Reply(t, [status |-> 400, error |-> "Please provide a question"])
              /\ loc' = [loc EXCEPT ![t] = [kind |-> "rejected",
                                            received |-> QuestionOf(body)]]
    /\ UNCHANGED <<documents, disk, papers, model, pypdf2, logged, core,
                   apart, sent>>

\* mutant: the check for an empty result list is missing
NoResultsNever(search_results) == FALSE

\* if not search_results
NoResults(search_results) == search_results = <<>>

NoEvidence ==
    [status     |-> 200,
     answer     |-> "No relevant information found. Please upload some PDF documents first.",
     sources    |-> <<>>,
     confidence |-> 0]

\* nav.search_documents(question, top_k=5) and the empty-result answer
QuerySearch(t) ==
    /\ pc[t] = "idle"
    /\ \E body \in QueryBodies :
         /\ body.json = "object" /\ body.has /\ body.type = "str"
         /\ LET question       == Strip(body.question)
                search_results == search_documents(documents, question, top_k)
            IN  /\ question # <<>>
                /\ IF NoResults(search_results)
                   THEN /\ Reply(t, NoEvidence)
                        /\ loc' = [loc EXCEPT ![t] =
                                     [kind |-> "answered", question |-> question,
                                      search_results |-> search_results,
                                      backend |-> "not called"]]
                   ELSE Goto(t, "q_generate",
                             [kind |-> "query", question |-> question,
                              search_results |-> search_results])
    /\ UNCHANGED <<documents, disk, papers, model, pypdf2, logged, core,
                   apart, sent>>

\* mutant: a failure message of the backend zeroes the confidence
QueryOkZeroOnFailure(answer, search_results) ==
    IF Len(search_results) = 0
    THEN [status |-> 500, error |-> "Error processing query: division by zero"]
    ELSE [status     |-> 200,
          answer     |-> answer,
          sources    |-> Sources(search_results),
          confidence |-> IF answer \in {"Gemini model not available. Please check API key."}
                                       \cup {"Error generating answer: " \o e :
                                                e \in BackendErrors}
                         THEN 0 ELSE Confidence(search_results)]

\* the answer of /query once generate_answer has returned; the mean of an
\* empty list is a ZeroDivisionError, which the handler's except answers
QueryOk(answer, search_results) ==
    IF Len(search_results) = 0
    THEN [status |-> 500, error |-> "Error processing query: division by zero"]
    ELSE [status     |-> 200,
          answer     |-> answer,
          sources    |-> Sources(search_results),
          confidence |-> Confidence(search_results)]

\* mutant: only a backend call that returns is answered; a failure of the
\* backend leaves the request without an answer
QueryGenerateUnhandled(t) ==
    /\ pc[t] = "q_generate"
    /\ \E g \in generate_answer(model, loc[t].question, loc[t].search_results) :
         /\ g[3] = "returned"
         /\ sent' = [sent EXCEPT ![t] = g[2]]
         /\ pc' = [pc EXCEPT ![t] = "done"]
         /\ resp' = [resp EXCEPT ![t] = QueryOk(g[1], loc[t].search_results)]
         /\ loc' = [loc EXCEPT ![t] =
                      [kind |-> "answered", question |-> loc[t].question,
                       search_results |-> loc[t].search_results,
                       backend |-> g[3]]]
    /\ UNCHANGED <<documents, disk, papers, model, pypdf2, logged, core, apart>>

\* mutant: the query saves the collection once the answer is there
QueryGenerateSaving(t) ==
    /\ pc[t] = "q_generate"
    /\ \E g \in generate_answer(model, loc[t].question, loc[t].search_results) :
         /\ sent' = [sent EXCEPT ![t] = g[2]]
         /\ pc' = [pc EXCEPT ![t] = "done"]
         /\ resp' = [resp EXCEPT ![t] = QueryOk(g[1], loc[t].search_results)]
         /\ loc' = [loc EXCEPT ![t] =
                      [kind |-> "answered", question |-> loc[t].question,
                       search_results |-> loc[t].search_results,
                       backend |-> g[3]]]
    /\ disk' = Written(documents)
    /\ UNCHANGED <<documents, papers, model, pypdf2, logged, core, apart>>

\* nav.generate_answer(question, search_results), sources, confidence
QueryGenerate(t) ==
    /\ pc[t] = "q_generate"
    /\ \E g \in generate_answer(model, loc[t].question, loc[t].search_results) :
         /\ sent' = [sent EXCEPT ![t] = g[2]]
         /\ pc' = [pc EXCEPT ![t] = "done"]
         /\ resp' = [resp EXCEPT ![t] = QueryOk(g[1], loc[t].search_results)]
         /\ loc' = [loc EXCEPT ![t] =
                      [kind |-> "answered", question |-> loc[t].question,
                       search_results |-> loc[t].search_results,
                       backend |-> g[3]]]
    /\ UNCHANGED <<documents, disk, papers, model, pypdf2, logged, core, apart>>

\* the response has been sent; the thread takes the next request
Finish(t) ==
    /\ pc[t] = "done"
    /\ pc' = [pc EXCEPT ![t] = "idle"]
    /\ loc' = [loc EXCEPT ![t] = NoLoc]
    /\ sent' = [sent EXCEPT ![t] = NoPrompt]
    /\ resp' = [resp EXCEPT ![t] = NoResp]
    /\ UNCHANGED <<documents, disk, papers, model, pypdf2, logged, core, apart>>

Step(t) ==
    \/ UploadReject(t)
    \/ UploadSave(t)
    \/ UploadExtract(t)
    \/ UploadAdd(t)
    \/ SaveDocuments(t)
    \/ FlushDocuments(t)
    \/ StatsChunks(t)
    \/ StatsDocs(t)
    \/ IndexDocs(t)
    \/ IndexChunks(t)
    \/ QueryReject(t)
    \/ QuerySearch(t)
    \/ QueryGenerate(t)
    \/ Finish(t)

\* the threaded server: requests interleave; the data directory takes every
\* write
Next == \E t \in Threads : Step(t)

Spec == Init /\ [][Next]_vars

\* no other request is in progress
Alone(t) == \A u \in Others(t) : pc[u] = "idle"

\* one request at a time: every request completes before the next starts;
\* a write to the data directory can fail
OneAtATime ==
    \E t \in Threads :
        \/ Alone(t) /\ UploadReject(t)
        \/ Alone(t) /\ UploadSave(t)
        \/ Alone(t) /\ UploadExtract(t)
        \/ Alone(t) /\ UploadAdd(t)
        \/ Alone(t) /\ SaveDocuments(t)
        \/ Alone(t) /\ FlushDocuments(t)
        \/ Alone(t) /\ SaveDocumentsFails(t)
        \/ Alone(t) /\ FlushDocumentsFails(t)
        \/ Alone(t) /\ StatsChunks(t)
        \/ Alone(t) /\ StatsDocs(t)
        \/ Alone(t) /\ IndexDocs(t)
        \/ Alone(t) /\ IndexChunks(t)
        \/ Alone(t) /\ QueryReject(t)
        \/ Alone(t) /\ QuerySearch(t)
        \/ Alone(t) /\ QueryGenerate(t)
        \/ Alone(t) /\ Finish(t)

SpecSeq == Init /\ [][OneAtATime]_vars

\* the steps of a request after its first
Continue(t) ==
    \/ UploadExtract(t)
    \/ UploadAdd(t)
    \/ SaveDocuments(t)
    \/ FlushDocuments(t)
    \/ StatsDocs(t)
    \/ IndexChunks(t)
    \/ QueryGenerate(t)

\* one request at a time, with the thread of a request that has started
\* scheduled until the request is answered, and every call its handler
\* makes (file system, PyPDF2, the generation backend) returning or raising
SpecLive == SpecSeq /\ \A t \in Threads : WF_vars(Alone(t) /\ Continue(t))

\* ------------------------------------------------------------------------
\* The core components that web_app.py, test_system.py and demo.py call and
\* whose code is not part of the sources: ChunkingAndEmbeddingPipeline,
\* VectorStore, SectionAwareRetriever and DuplicateDetector, modelled from
\* sections 3 to 5 of the specification.  Similarities are in hundredths.
\* ------------------------------------------------------------------------

\* the dimensionality of every embedding of the collection
EmbeddingDim == 3

\* the duplicate threshold, 0.92
DuplicateThreshold == 92

\* the minimum-similarity floor of the retriever
MinSimilarity == 30

\* the candidate set of a retrieval holds top_k * FanOut records
FanOut == 2

\* how many nearest neighbours the detector asks for per chunk
NeighborK == 2

\* the boost of a chunk whose section kind matches the query intent, 1.2
BoostNum == 6

BoostDen == 5

\* the processed documents that can be ingested: the chunks the document
\* processor made of each (section kind, text, position 0, 1, ...)
ProcessedDocs ==
    {[document_id |-> 1, title |-> "A",
      chunks |-> <<[section_type |-> "results", content |-> "p4"],
                   [section_type |-> "methods", content |-> "p1"]>>],
     [document_id |-> 2, title |-> "B",
      chunks |-> <<[section_type |-> "methods", content |-> "p2"],
                   [section_type |-> "results", content |-> "p5"]>>],
     [document_id |-> 3, title |-> "C",
      chunks |-> <<[section_type |-> "methods", content |-> "p3"],
                   [section_type |-> "other",   content |-> " "]>>],
     [document_id |-> 4, title |-> "D",
      chunks |-> <<[section_type |-> "other",   content |-> ""],
                   [section_type |-> "other",   content |-> " "]>>]}

\* what the embedding backend returns for a text when the call succeeds: a
\* vector of the collection's dimensionality, named by the point it is at
embed(text) == [dim |-> EmbeddingDim, at |-> text]

\* the normalised similarity of two embeddings
SimilarityOf(e, f) ==
    IF e.at = f.at THEN 100
    ELSE CASE {e.at, f.at} = {"p1", "p2"} -> 97
           [] {e.at, f.at} = {"p2", "p3"} -> 93
           [] {e.at, f.at} = {"p1", "p3"} -> 85
           [] {e.at, f.at} = {"p4", "p2"} -> 97
           [] {e.at, f.at} = {"p4", "p1"} -> 90
           [] {e.at, f.at} = {"p4", "p3"} -> 88
           [] {e.at, f.at} = {"p4", "p5"} -> 95
           [] {e.at, f.at} = {"What methodology was used?", "p1"} -> 80
           [] {e.at, f.at} = {"What methodology was used?", "p4"} -> 80
           [] {e.at, f.at} = {"What methodology was used?", "p2"} -> 70
           [] {e.at, f.at} = {"What methodology was used?", "p3"} -> 20
           [] {e.at, f.at} = {"What were the main findings?", "p1"} -> 80
           [] {e.at, f.at} = {"What were the main findings?", "p4"} -> 75
           [] {e.at, f.at} = {"What were the main findings?", "p2"} -> 50
           [] {e.at, f.at} = {"What were the main findings?", "p3"} -> 50
           [] {e.at, f.at} = {"What is this research about?", "p4"} -> 40
           [] OTHER -> 50

\* the queries of demo_retrieval_system
Queries ==
    {"What methodology was used?", "What were the main findings?",
     "What is this research about?"}

TopKs == {1, 3}

\* the chunk id, a function of document id and position
ChunkId(document_id, position) == <<document_id, position>>

\* the record of an embedded chunk
Record(doc, position, embedding) ==
    [chunk_id     |-> ChunkId(doc.document_id, position),
     document_id  |-> doc.document_id,
     title        |-> doc.title,
     section_type |-> doc.chunks[position + 1].section_type,
     content      |-> doc.chunks[position + 1].content,
     position     |-> position,
     embedding    |-> embedding]

\* --------------------------------------------------------- Vector Store

\* the tie-break of search: smaller position, then smaller document id
TieBefore(r, s) ==
    \/ r.position < s.position
    \/ r.position = s.position /\ r.document_id < s.document_id

\* r comes before s in a search for query_vector
SearchBefore(query_vector, r, s) ==
    LET sr == SimilarityOf(query_vector, r.embedding)
        ss == SimilarityOf(query_vector, s.embedding)
    IN  sr > ss \/ (sr = ss /\ TieBefore(r, s))

RECURSIVE SearchOrder(_, _)
SearchOrder(query_vector, records) ==
    IF records = {} THEN <<>>
    ELSE LET first == CHOOSE r \in records :
                         \A s \in records \ {r} : SearchBefore(query_vector, r, s)
         IN  <<first>> \o SearchOrder(query_vector, records \ {first})

\* a metadata filter: the section kind asked for, or any
NoFilter == [section_type |-> "any"]

Passes(metadata_filter, r) ==
    metadata_filter.section_type \in {"any", r.section_type}

\* search(query_vector, top_k, metadata_filter): the top_k records that pass
\* the filter, each with its similarity, nearest first
search(store, query_vector, k, metadata_filter) ==
    LET ordered == SearchOrder(query_vector,
                               {r \in store : Passes(metadata_filter, r)})
    IN  [i \in 1..Min(k, Len(ordered)) |->
            [record     |-> ordered[i],
             similarity |-> SimilarityOf(query_vector, ordered[i].embedding)]]

\* upsert(chunks): insert, or replace the record of the same chunk id
upsert(store, chunks) ==
    {r \in store : \A i \in 1..Len(chunks) : chunks[i].chunk_id # r.chunk_id}
    \cup Range(chunks)


\* ------------------------------------------------ Section-Aware Retriever

\* the lexical cues of a query text: which keywords it contains
HasCue(query, cue) ==
    CASE query = "What methodology was used?"   -> cue \in {"method"}
      [] query = "What were the main findings?" -> cue \in {"finding"}
      [] OTHER                                  -> FALSE

\* step 1: the intent kind of a query
classify(query) ==
    IF HasCue(query, "method") \/ HasCue(query, "approach") THEN "methods"
    ELSE IF HasCue(query, "result") \/ HasCue(query, "finding") THEN "results"
    ELSE IF HasCue(query, "figure") \/ HasCue(query, "chart") THEN "figures"
    ELSE "general"

\* mutant: no section kind is boosted
NoBoost(intent, section_type) == <<1, 1>>

\* section_boost(query_intent, section kind), as a fraction: 1.0, or the
\* boost factor when the section kind is the one the intent asks for
section_boost(intent, section_type) ==
    IF intent \in {"methods", "results", "figures"} /\ section_type = intent
    THEN <<BoostNum, BoostDen>>
    ELSE <<1, 1>>

\* final_score = similarity_score * section_boost, as a fraction
final_score(similarity, boost) == Frac(similarity * boost[1], 100 * boost[2])

\* a comes before b in the re-ranked list: higher final score, and on an
\* exact tie the tie-break of the store
RankBefore(a, b) ==
    \/ ~FracLeq(a.final_score, b.final_score)
    \/ a.final_score = b.final_score /\ TieBefore(a.chunk, b.chunk)

RECURSIVE RankOrder(_)
RankOrder(cands) ==
    IF cands = {} THEN <<>>
    ELSE LET first == CHOOSE a \in cands :
                         \A b \in cands \ {a} : RankBefore(a, b)
         IN  <<first>> \o RankOrder(cands \ {first})

\* retrieve(query, top_k): the Retrieval Results, best first
retrieve(store, query, k) ==
    LET intent == classify(query)
        found  == search(store, embed(query), k * FanOut, NoFilter)
        cands  == {[chunk            |-> found[i].record,
                    title            |-> found[i].record.title,
                    similarity_score |-> found[i].similarity,
                    final_score      |->
                        final_score(found[i].similarity,
                                    section_boost(intent,
                                        found[i].record.section_type))] :
                      i \in {j \in 1..Len(found) :
                                found[j].similarity >= MinSimilarity}}
        ranked == RankOrder(cands)
    IN  SubSeq(ranked, 1, Min(k, Len(ranked)))

\* ---------------------------------------------------- Duplicate Detector

\* the nearest neighbours of chunk c: by default of the same section kind
\* only, and without c itself
NeighborsOf(store, c) ==
    search(store \ {c}, c.embedding, NeighborK,
           [section_type |-> c.section_type])

\* mutant: the threshold test the wrong way round (a distance test)
DuplicateEdgesBelow(store) ==
    UNION {LET near == NeighborsOf(store, c)
           IN  {{c, near[i].record} :
                   i \in {j \in 1..Len(near) :
                             near[j].similarity <= DuplicateThreshold}} :
           c \in store}

\* the edges: the pairs {c, n} where the neighbour query of c returns n with
\* a similarity at or above the duplicate threshold
DuplicateEdges(store) ==
    UNION {LET near == NeighborsOf(store, c)
           IN  {{c, near[i].record} :
                   i \in {j \in 1..Len(near) :
                             near[j].similarity >= DuplicateThreshold}} :
           c \in store}

\* mutant: the chunks of S and their direct neighbours only
ComponentOneStep(S, edges) == S \cup UNION {e \in edges : e \cap S # {}}

\* union-find: the members of the component that holds the chunks of S
RECURSIVE Component(_, _)
Component(S, edges) ==
    LET grown == S \cup UNION {e \in edges : e \cap S # {}}
    IN  IF grown = S THEN S ELSE Component(grown, edges)

\* the similarity of the two chunks of an edge
EdgeSimilarity(e) ==
    LET a == CHOOSE x \in e : TRUE
        b == CHOOSE y \in e : y # a
    IN  SimilarityOf(a.embedding, b.embedding)

RECURSIVE SumSimilarity(_)
SumSimilarity(edges) ==
    IF edges = {} THEN 0
    ELSE LET e == CHOOSE x \in edges : TRUE
         IN  EdgeSimilarity(e) + SumSimilarity(edges \ {e})

\* the member with the smallest (document id, position)
Representative(members) ==
    CHOOSE c \in members :
        \A d \in members \ {c} :
            \/ c.document_id < d.document_id
            \/ c.document_id = d.document_id /\ c.position < d.position

\* mutant: the mean over all pairs of members, edges or not
ClusterAllPairs(members, edges) ==
    LET pairs == {{a, b} : a \in members, b \in members} \ {{a} : a \in members}
    IN  [chunk_ids      |-> {c.chunk_id : c \in members},
         document_ids   |-> {c.document_id : c \in members},
         cluster_size   |-> Cardinality(members),
         avg_similarity |-> Frac(SumSimilarity(pairs),
                                 Cardinality(pairs)),
         representative_chunk |-> Representative(members)]

\* the Duplicate Cluster of a component; avg_similarity is the mean over
\* the edges found inside it, as a fraction (in hundredths)
Cluster(members, edges) ==
    LET inside == {e \in edges : e \subseteq members}
    IN  [chunk_ids      |-> {c.chunk_id : c \in members},
         document_ids   |-> {c.document_id : c \in members},
         cluster_size   |-> Cardinality(members),
         avg_similarity |-> Frac(SumSimilarity(inside),
                                 Cardinality(inside)),
         representative_chunk |-> Representative(members)]

\* a comes before b in detect(): larger cluster, then higher average
\* similarity, then the smaller representative
ClusterBefore(a, b) ==
    \/ a.cluster_size > b.cluster_size
    \/ /\ a.cluster_size = b.cluster_size
       /\ \/ ~FracLeq(a.avg_similarity, b.avg_similarity)
          \/ /\ a.avg_similarity = b.avg_similarity
             /\ Representative({a.representative_chunk,
                                b.representative_chunk})
                   = a.representative_chunk

RECURSIVE ClusterOrder(_)
ClusterOrder(clusters) ==
    IF clusters = {} THEN <<>>
    ELSE LET first == CHOOSE a \in clusters :
                         \A b \in clusters \ {a} : ClusterBefore(a, b)
         IN  <<first>> \o ClusterOrder(clusters \ {first})

\* detect(): the components of two chunks or more, as Duplicate Clusters
detect_duplicates_in_collection(store) ==
    LET edges      == DuplicateEdges(store)
        components == {Component({c}, edges) : c \in store}
    IN  ClusterOrder({Cluster(m, edges) :
                         m \in {n \in components : Cardinality(n) >= 2}})

RECURSIVE DuplicateChunks(_)
DuplicateChunks(clusters) ==
    IF clusters = <<>> THEN 0
    ELSE Head(clusters).cluster_size - 1 + DuplicateChunks(Tail(clusters))

\* mutant: every member of a cluster counted as a duplicate
StatisticsAllMembers(store) ==
    LET clusters == detect_duplicates_in_collection(store)
        dups     == DuplicateChunks(clusters) + Len(clusters)
        total    == Cardinality(store)
    IN  [total_duplicate_clusters |-> Len(clusters),
         total_duplicate_chunks   |-> dups,
         affected_documents |->
            Cardinality(UNION {clusters[i].document_ids : i \in 1..Len(clusters)}),
         duplicate_percentage |->
            IF total = 0 THEN <<0, 1>> ELSE Frac(100 * dups, total),
         section_breakdown |->
            [k \in {clusters[i].representative_chunk.section_type :
                       i \in 1..Len(clusters)} |->
                [clusters |->
                    Cardinality({i \in 1..Len(clusters) :
                        clusters[i].representative_chunk.section_type = k})]]]

\* statistics(): derived from the clusters of detect()
get_duplicate_statistics(store) ==
    LET clusters == detect_duplicates_in_collection(store)
        dups     == DuplicateChunks(clusters)
        total    == Cardinality(store)
    IN  [total_duplicate_clusters |-> Len(clusters),
         total_duplicate_chunks   |-> dups,
         affected_documents |->
            Cardinality(UNION {clusters[i].document_ids : i \in 1..Len(clusters)}),
         duplicate_percentage |->
            IF total = 0 THEN <<0, 1>> ELSE Frac(100 * dups, total),
         section_breakdown |->
            [k \in {clusters[i].representative_chunk.section_type :
                       i \in 1..Len(clusters)} |->
                [clusters |->
                    Cardinality({i \in 1..Len(clusters) :
                        clusters[i].representative_chunk.section_type = k})]]]

\* ------------------------------------------ the operations on the core

\* mutant: the text is embedded as it is
NormalizeNothing(text) == text

\* text normalisation before embedding: whitespace-only text is empty
Normalize(text) == IF text \in {"", " "} THEN "" ELSE text

\* the chunk the running call is at
Current == job.doc.chunks[job.position + 1]

Advance(chunks) ==
    job' = [job EXCEPT !.position = job.position + 1, !.attempt = 1,
                       !.chunks = chunks]

\* process_single_document(processed_doc) is called
Ingest ==
    /\ ~job.running
    /\ \E doc \in ProcessedDocs :
          job' = [running |-> TRUE, doc |-> doc, position |-> 0,
                  attempt |-> 1, chunks |-> <<>>]
    /\ embed_calls' = <<>>
    /\ core_out' = NoOut
    /\ UNCHANGED <<vector_store, app, apart>>

\* a chunk whose text is empty after normalisation is dropped before the
\* embedding step
SkipEmpty ==
    /\ job.running /\ job.position < Len(job.doc.chunks)
    /\ Normalize(Current.content) = ""
    /\ Advance(job.chunks)
    /\ UNCHANGED <<vector_store, embed_calls, core_out, app, apart>>

\* the embedding call of the current chunk returns a vector
EmbedOk ==
    /\ job.running /\ job.position < Len(job.doc.chunks)
    /\ Normalize(Current.content) # ""
    /\ embed_calls' = Append(embed_calls, [position |-> job.position, ok |-> TRUE])
    /\ Advance(Append(job.chunks,
                      Record(job.doc, job.position, embed(Current.content))))
    /\ UNCHANGED <<vector_store, core_out, app, apart>>

\* mutant: a failed embedding call is not retried, the chunk is dropped
EmbedRetryNever ==
    /\ job.running /\ job.position < Len(job.doc.chunks)
    /\ Normalize(Current.content) # ""
    /\ job.attempt = 1
    /\ embed_calls' = Append(embed_calls, [position |-> job.position, ok |-> FALSE])
    /\ Advance(job.chunks)
    /\ UNCHANGED <<vector_store, core_out, app, apart>>

\* the first embedding call of the current chunk fails: it is retried once
EmbedRetry ==
    /\ job.running /\ job.position < Len(job.doc.chunks)
    /\ Normalize(Current.content) # ""
    /\ job.attempt = 1
    /\ embed_calls' = Append(embed_calls, [position |-> job.position, ok |-> FALSE])
    /\ job' = [job EXCEPT !.attempt = 2]
    /\ UNCHANGED <<vector_store, core_out, app, apart>>

\* the retry fails too: this chunk is dropped and logged, the call goes on
EmbedDrop ==
    /\ job.running /\ job.position < Len(job.doc.chunks)
    /\ Normalize(Current.content) # ""
    /\ job.attempt = 2
    /\ embed_calls' = Append(embed_calls, [position |-> job.position, ok |-> FALSE])
    /\ Advance(job.chunks)
    /\ UNCHANGED <<vector_store, core_out, app, apart>>

\* process_single_document returns its chunks and add_documents(chunks)
\* upserts them as one batch, or fails (StorageUnavailable) and stores none
AddDocuments ==
    /\ job.running /\ job.position = Len(job.doc.chunks)
    /\ \E success \in BOOLEAN :
          /\ vector_store' = IF success THEN upsert(vector_store, job.chunks)
                             ELSE vector_store
          /\ core_out' = [op |-> "ingest", doc |-> job.doc,
                          chunks |-> job.chunks, success |-> success]
    /\ job' = NoJob
    /\ UNCHANGED <<embed_calls, app, apart>>

\* retriever.retrieve(query, top_k)
Retrieve ==
    /\ \E query \in Queries, k \in TopKs :
          core_out' = [op |-> "retrieve", query |-> query, top_k |-> k,
                       store |-> vector_store,
                       results |-> retrieve(vector_store, query, k)]
    /\ UNCHANGED <<vector_store, job, embed_calls, app, apart>>

\* duplicate_detector.detect_duplicates_in_collection()
Detect ==
    /\ core_out' = [op |-> "detect", store |-> vector_store,
                    clusters |-> detect_duplicates_in_collection(vector_store)]
    /\ UNCHANGED <<vector_store, job, embed_calls, app, apart>>

\* duplicate_detector.get_duplicate_statistics()
Statistics ==
    /\ core_out' = [op |-> "statistics", store |-> vector_store,
                    stats |-> get_duplicate_statistics(vector_store)]
    /\ UNCHANGED <<vector_store, job, embed_calls, app, apart>>

\* the application of simple_app.py as constructed, with no request
AppIdle ==
    /\ documents = <<>>
    /\ disk = Absent
    /\ papers = [fn \in {f \in Filenames : EndsWithPdf(f)} |-> Absent]
    /\ model = FALSE
    /\ pypdf2 = FALSE
    /\ logged = FALSE
    /\ pc = [t \in Threads |-> "idle"]
    /\ loc = [t \in Threads |-> NoLoc]
    /\ sent = [t \in Threads |-> NoPrompt]
    /\ resp = [t \in Threads |-> NoResp]

CoreInit == AppIdle /\ CoreIdle /\ ApartIdle

CoreNext ==
    \/ Ingest
    \/ SkipEmpty
    \/ EmbedOk
    \/ EmbedRetry
    \/ EmbedDrop
    \/ AddDocuments
    \/ Retrieve
    \/ Detect
    \/ Statistics

\* the core components on their own
SpecCore == CoreInit /\ [][CoreNext]_vars

\* ------------------------------------------------- create_chunks on its own

\* the longest content of a call, in tokens
MaxLen == 5

\* the largest of the small chunk_size arguments of a call
MaxSize == 4

Tokens == {"a", "bb", "W799", " ", "\n"}

\* a text as a sequence of tokens: two words have whitespace between them
IsText(s) == \A i \in 1..(Len(s) - 1) : IsWord(s[i]) => ~IsWord(s[i + 1])

Contents == UNION {{s \in [1..n -> Tokens] : IsText(s)} : n \in 0..MaxLen}

ChunkSizes == (0..MaxSize) \cup {chunk_size}

\* a caller has passed a content and a chunk size
ChunksInit ==
    /\ AppIdle
    /\ CoreIdle
    /\ suite = NoSuite
    /\ call \in {[state |-> "called", content |-> c, chunk_size |-> n] :
                    c \in Contents, n \in ChunkSizes}

\* create_chunks runs and returns its list
CreateChunks ==
    /\ call.state = "called"
    /\ call' = [state |-> "returned", content |-> call.content,
                chunk_size |-> call.chunk_size,
                chunks |-> create_chunks_sized(call.content, call.chunk_size)]
    /\ UNCHANGED <<app, core, suite>>

SpecChunks == ChunksInit /\ [][CreateChunks]_vars

\* ------------------------------------------------------- test_system.py

\* tests of run_full_test_suite: (test_name, test_func) in the order of the
\* list
tests ==
    << <<"Document Processing",  "test_document_processing">>,
       <<"Chunking & Embedding", "test_chunking_and_embedding">>,
       <<"Vector Store",         "test_vector_store">>,
       <<"Retrieval System",     "test_retrieval">>,
       <<"Answer Generation",    "test_answer_generation">>,
       <<"Duplicate Detection",  "test_duplicate_detection">> >>

\* A test function is modelled by the ways its call can end: it returns
\* True, it returns False, or it raises. The components it calls are the
\* core components; what they do is in the second part of the model. s is
\* the tester: s.configured says that __init__ created the components (it
\* returns before that on a configuration error), s.pdf_files that the
\* papers directory holds a PDF file.

\* the body of a test whose statements are all inside try/except Exception:
\* without the components every use of one raises AttributeError, which the
\* test catches
Guarded(s) == IF s.configured THEN {"True", "False"} ELSE {"False"}

\* Config.PAPERS_DIR and the glob are outside the try; without PDF files
\* the test returns False
test_document_processing(s) ==
    {"raised"} \cup (IF s.pdf_files THEN Guarded(s) ELSE {"False"})

test_chunking_and_embedding(s) ==
    {"raised"} \cup (IF s.pdf_files THEN Guarded(s) ELSE {"False"})

\* True when the store holds chunks or a test document could be added
test_vector_store(s) == Guarded(s)

\* True unless retrieve raises
test_retrieval(s) == Guarded(s)

\* True when an answer was generated
test_answer_generation(s) == Guarded(s)

\* True unless get_duplicate_statistics raises
test_duplicate_detection(s) == Guarded(s)

\* test_func()
CallTest(test_func, s) ==
    CASE test_func = "test_document_processing"    -> test_document_processing(s)
      [] test_func = "test_chunking_and_embedding" -> test_chunking_and_embedding(s)
      [] test_func = "test_vector_store"           -> test_vector_store(s)
      [] test_func = "test_retrieval"              -> test_retrieval(s)
      [] test_func = "test_answer_generation"      -> test_answer_generation(s)
      [] test_func = "test_duplicate_detection"    -> test_duplicate_detection(s)

\* a dict as the sequence of its (key, value) items, in insertion order

\* d[k] = v
DictSet(d, k, v) ==
    IF \E i \in 1..Len(d) : d[i][1] = k
    THEN [i \in 1..Len(d) |-> IF d[i][1] = k THEN <<k, v>> ELSE d[i]]
    ELSE Append(d, <<k, v>>)

\* sum(d.values()) of a dict of booleans
RECURSIVE SumValues(_)
SumValues(d) ==
    IF d = <<>> THEN 0
    ELSE (IF Head(d)[2] THEN 1 ELSE 0) + SumValues(Tail(d))

\* the test script is started: nothing constructed yet
SuiteInit ==
    /\ AppIdle
    /\ CoreIdle
    /\ call = NoCall
    /\ suite = NoSuite

\* tester = SystemTester()
NewSystemTester ==
    /\ suite.pc = "none"
    /\ \E configured \in BOOLEAN, pdf_files \in BOOLEAN :
          suite' = [pc |-> "constructed", configured |-> configured,
                    pdf_files |-> pdf_files, i |-> 0, results |-> <<>>,
                    calls |-> <<>>, returned |-> FALSE]
    /\ UNCHANGED <<app, core, call>>

\* run_full_test_suite up to the loop: results = {}
StartSuite ==
    /\ suite.pc = "constructed"
    /\ suite' = [suite EXCEPT !.pc = "loop", !.i = 1, !.results = <<>>]
    /\ UNCHANGED <<app, core, call>>

\* mutant: the loop body without its try/except
RunTestUncaught ==
    /\ suite.pc = "loop"
    /\ suite.i <= Len(tests)
    /\ \E out \in CallTest(tests[suite.i][2], suite) :
          suite' = IF out = "raised"
                   THEN [suite EXCEPT
                            !.pc = "crashed",
                            !.calls = Append(@, <<tests[suite.i][2], out>>)]
                   ELSE [suite EXCEPT
                            !.i = @ + 1,
                            !.calls = Append(@, <<tests[suite.i][2], out>>),
                            !.results = DictSet(@, tests[suite.i][1],
                                                out = "True")]
    /\ UNCHANGED <<app, core, call>>

\* one pass of the loop: the test is called; what it returns is stored under
\* its name, and False is stored when it raises
RunTest ==
    /\ suite.pc = "loop"
    /\ suite.i <= Len(tests)
    /\ \E out \in CallTest(tests[suite.i][2], suite) :
          suite' = [suite EXCEPT
                       !.i = @ + 1,
                       !.calls = Append(@, <<tests[suite.i][2], out>>),
                       !.results = DictSet(@, tests[suite.i][1],
                                           IF out = "raised" THEN FALSE
                                           ELSE out = "True")]
    /\ UNCHANGED <<app, core, call>>

\* the summary: passed = sum(results.values()), total = len(results),
\* return passed == total
Summary ==
    /\ suite.pc = "loop"
    /\ suite.i > Len(tests)
    /\ LET passed == SumValues(suite.results)
           total  == Len(suite.results)
       IN  suite' = [suite EXCEPT !.pc = "returned",
                                  !.returned = (passed = total)]
    /\ UNCHANGED <<app, core, call>>

SuiteNext ==
    \/ NewSystemTester
    \/ StartSuite
    \/ RunTest
    \/ Summary

\* the script is one thread that runs each statement after the one before,
\* and the calls a test makes return or raise
SpecSuite == SuiteInit /\ [][SuiteNext]_vars /\ WF_vars(SuiteNext)


\* ------------------------------------------------------------ vocabulary

\* thread t has just appended its document (the step add_document's append)
Appends(t) == pc[t] = "u_add" /\ pc'[t] = "u_save"

\* document d is already stored: same file name, same content
Stored(d) ==
    \E i \in 1..Len(documents) :
        /\ documents[i].filename = d.filename
        /\ documents[i].content = d.content

\* thread t holds the answer of a /query request that reached the search
Answered(t) == pc[t] = "done" /\ loc[t].kind = "answered"

\* the documents that have at least one record (chunk) in the store
DocsWithRecords ==
    {documents[i].filename : i \in {j \in 1..Len(documents) :
                                        documents[j].chunks # <<>>}}

\* ---------------------------------------------------------------- claims

\* C1: ingestion is idempotent.  Whenever a document that is already stored
\* with the same content (and has chunks) is ingested again, the ingest
\* leaves the number of documents and the number of chunk records as they
\* were after the first ingest.
C1_IdempotentIngest ==
    [][\A t \in Threads :
          (Appends(t) /\ loc'[t].doc.chunks # <<>> /\ Stored(loc'[t].doc))
          => /\ Len(documents') = Len(documents)
             /\ TotalChunks(documents') = TotalChunks(documents)]_vars

\* the visible collection is a prefix of today's list with whole documents
PrefixTotals == {TotalChunks(SubSeq(documents, 1, k)) : k \in 0..Len(documents)}

\* rs is the search for question over such a prefix (the longest first)
IsPrefixSearch(rs, question) ==
    \E j \in 0..Len(documents) :
        rs = search_documents(SubSeq(documents, 1, Len(documents) - j),
                              question, top_k)

\* C2: a batch (the chunks of one document) is visible to reads all at once
\* or not at all.  Every stored document carries the complete chunk list of
\* its content, the chunk total a stats or index read has taken is the total
\* of whole documents, and the evidence a search has taken is the search
\* over whole documents, also while uploads run concurrently.
C2_BatchAtomic ==
    /\ \A i \in 1..Len(documents) :
          documents[i].chunks = create_chunks(documents[i].content)
    /\ \A t \in Threads :
          /\ pc[t] = "s_docs" => loc[t].total_chunks \in PrefixTotals
          /\ (pc[t] = "done" /\ resp[t].status = 200
                /\ "page" \in DOMAIN resp[t]) => resp[t].total_chunks \in PrefixTotals
          /\ pc[t] = "q_generate" =>
                IsPrefixSearch(loc[t].search_results, loc[t].question)

\* two uploads run concurrently, one of them has made a three-chunk batch
\* visible and the other is about to append
C2_Witness ==
    \E t \in Threads, u \in Threads :
        /\ pc[t] = "u_save" /\ Len(loc[t].doc.chunks) = 3
        /\ pc[u] = "u_add"

\* C3: a stats() answer agrees with the stored state: total_chunks is the
\* number of records, unique_documents is the number of distinct documents
\* those records belong to, and section_distribution sums to total_chunks.
C3_StatsAgree ==
    \A t \in Threads :
        (pc[t] = "done" /\ resp[t].status = 200
            /\ "section_distribution" \in DOMAIN resp[t])
        => /\ resp[t].total_chunks = TotalChunks(documents)
           /\ resp[t].unique_documents = Cardinality(DocsWithRecords)
           /\ LET sd == resp[t].section_distribution
              IN  (IF sd = <<>> THEN 0 ELSE sd["content"]) = resp[t].total_chunks

\* a stats() answer after an upload whose document has no chunk
C3_Witness ==
    \E t \in Threads :
        /\ pc[t] = "done" /\ resp[t].status = 200
        /\ "section_distribution" \in DOMAIN resp[t]
        /\ Len(documents) > 0

\* C4: when retrieval yields no evidence the search returns the empty list,
\* the request is answered with the fixed insufficient-evidence answer,
\* confidence 0 and no citations, and the generation backend is not called.
C4_NoEvidence ==
    \A t \in Threads :
        (Answered(t) /\ loc[t].search_results = <<>>)
        => /\ resp[t].status = 200
           /\ resp[t].answer =
                "No relevant information found. Please upload some PDF documents first."
           /\ resp[t].confidence = 0
           /\ resp[t].sources = <<>>
           /\ sent[t] = NoPrompt
           /\ loc[t].backend = "not called"

\* a question asked of the empty collection has been answered
C4_Witness ==
    \E t \in Threads :
        Answered(t) /\ loc[t].search_results = <<>> /\ documents = <<>>

\* the answers generate_answer gives when the backend is unavailable or raises
FailureAnswers ==
    {"Gemini model not available. Please check API key."}
    \cup {"Error generating answer: " \o e : e \in BackendErrors}

\* thread t holds the answer of a request with evidence whose backend failed
BackendFailed(t) ==
    /\ Answered(t)
    /\ loc[t].search_results # <<>>
    /\ loc[t].backend \in {"raised", "unavailable"}

RECURSIVE DenProduct(_)
DenProduct(rs) ==
    IF rs = <<>> THEN 1 ELSE Head(rs).similarity[2] * DenProduct(Tail(rs))

RECURSIVE NumSum(_, _)
NumSum(rs, P) ==
    IF rs = <<>> THEN 0
    ELSE Head(rs).similarity[1] * (P \div Head(rs).similarity[2])
         + NumSum(Tail(rs), P)

Abs(x) == IF x < 0 THEN -x ELSE x

\* c hundredths is a nearest two-decimal value of min(1.5 * mean, 1), where
\* mean is the mean similarity of the evidence rows rs:
\*   | c/100 - min(3N, 2Pk) / (2Pk) | <= 1/200,  mean = N / (P k)
IsScaledMean(c, rs) ==
    LET P == DenProduct(rs)
        N == NumSum(rs, P)
        k == Len(rs)
    IN  Abs(2 * P * k * c - 100 * Min(3 * N, 2 * P * k)) <= P * k

\* C5 as stated: when the backend fails on a request with evidence, the
\* request is answered with a failure message and with confidence 0.
C5_FailureConfidenceZero ==
    \A t \in Threads :
        BackendFailed(t)
        => /\ resp[t].status = 200
           /\ resp[t].answer \in FailureAnswers
           /\ resp[t].confidence = 0

\* what the code does instead (C5): when the backend fails on a request with
\* evidence, the request is answered (status 200) with a failure message,
\* the citations of the evidence, and the confidence of the evidence,
\* min(1.5 * mean, 1).
C5_FailureAnswered ==
    \A t \in Threads :
        BackendFailed(t)
        => /\ resp[t].status = 200
           /\ resp[t].answer \in FailureAnswers
           /\ Len(resp[t].sources) = Len(loc[t].search_results)
           /\ IsScaledMean(resp[t].confidence, loc[t].search_results)

\* the backend raised on a request with evidence, and the request is answered
C5_Witness ==
    \E t \in Threads :
        BackendFailed(t) /\ loc[t].backend = "raised" /\ resp[t].confidence > 0

\* C6: two answered requests with the same ordered evidence have the same
\* confidence, whatever the backend did in each.
C6_ConfidenceFromEvidence ==
    \A t \in Threads, u \in Threads :
        (/\ Answered(t) /\ Answered(u)
         /\ resp[t].status = 200 /\ resp[u].status = 200
         /\ loc[t].search_results = loc[u].search_results)
        => resp[t].confidence = resp[u].confidence

\* two requests with the same evidence: the backend raised in one and
\* returned text in the other
C6_Witness ==
    \E t \in Threads, u \in Threads :
        /\ Answered(t) /\ Answered(u)
        /\ loc[t].search_results # <<>>
        /\ loc[t].search_results = loc[u].search_results
        /\ loc[t].backend = "raised" /\ loc[u].backend = "returned"
        /\ resp[t].answer # resp[u].answer

\* C7: every answer has a confidence in [0, 1] (0..100 hundredths): 0 with
\* no evidence, else the mean evidence similarity times 1.5, capped at 1.
C7_ConfidenceRange ==
    \A t \in Threads :
        (Answered(t) /\ resp[t].status = 200)
        => /\ resp[t].confidence \in 0..100
           /\ loc[t].search_results = <<>> => resp[t].confidence = 0
           /\ loc[t].search_results # <<>> =>
                IsScaledMean(resp[t].confidence, loc[t].search_results)

\* an answer whose scaled mean exceeds 1 and is capped
C7_Witness ==
    \E t \in Threads :
        /\ Answered(t) /\ resp[t].status = 200
        /\ loc[t].search_results # <<>>
        /\ LET rs == loc[t].search_results
               P  == DenProduct(rs)
           IN  3 * NumSum(rs, P) > 2 * P * Len(rs)
        /\ resp[t].confidence = 100

\* the evidence row is a chunk of a stored document with that title
InCollection(row) ==
    \E d \in 1..Len(documents) :
        /\ documents[d].title = row.title
        /\ \E j \in 1..Len(documents[d].chunks) :
              documents[d].chunks[j] = row.content

\* C8: the citations are the evidence rows, one each and in order, with the
\* row's title, section and similarity (three decimals); the prompt, when
\* one is built, holds the same rows in the same order; every cited row is
\* a chunk of the collection.
C8_CitationsFromEvidence ==
    \A t \in Threads :
        (Answered(t) /\ resp[t].status = 200 /\ loc[t].search_results # <<>>)
        => LET ev == loc[t].search_results
               cs == resp[t].sources
           IN  /\ Len(cs) = Len(ev)
               /\ \A i \in 1..Len(ev) :
                     /\ cs[i].title = ev[i].title
                     /\ cs[i].section = "Content"
                     /\ Abs(2 * (1000 * ev[i].similarity[1]
                                 - cs[i].similarity * ev[i].similarity[2]))
                            <= ev[i].similarity[2]
                     /\ cs[i].content.of = ev[i].content
                     /\ InCollection(ev[i])
               /\ sent[t].built =>
                     /\ Len(sent[t].context) = Len(ev)
                     /\ \A i \in 1..Len(ev) :
                           /\ sent[t].context[i].source = ev[i].title
                           /\ sent[t].context[i].content = ev[i].content

\* an answer that cites chunks of two documents and whose prompt was sent
C8_Witness ==
    \E t \in Threads :
        /\ Answered(t) /\ resp[t].status = 200 /\ sent[t].built
        /\ Len(resp[t].sources) >= 2
        /\ resp[t].sources[1].title # resp[t].sources[2].title
        /\ resp[t].sources[1].similarity # resp[t].sources[2].similarity

\* C9: every retrieval result has a similarity s with 0 <= s <= 1.
C9_SimilarityRange ==
    \A t \in Threads :
        (pc[t] = "q_generate" \/ Answered(t))
        => \A i \in 1..Len(loc[t].search_results) :
              LET s == loc[t].search_results[i].similarity
              IN  s[2] > 0 /\ 0 <= s[1] /\ s[1] <= s[2]

\* a search has returned top_k results, not all of the same similarity
C9_Witness ==
    \E t \in Threads :
        /\ pc[t] = "q_generate"
        /\ Len(loc[t].search_results) = top_k
        /\ loc[t].search_results[1].similarity
              # loc[t].search_results[top_k].similarity

\* the places <<document index, chunk index>> of the stored chunks an
\* evidence row can stand for (a document has no id of its own: its index in
\* nav.documents, the order of ingestion, stands for it)
Places(row) ==
    {pl \in UNION {{<<d, j>> : j \in 1..Len(documents[d].chunks)} :
                        d \in 1..Len(documents)} :
        /\ documents[pl[1]].title = row.title
        /\ documents[pl[1]].chunks[pl[2]] = row.content}

\* C11: the results are in non-increasing order of score, and two results of
\* exactly equal score are in the order of their chunk positions, smaller
\* first, and of their document ids when the positions are equal too; for
\* chunks of the same document and of different documents.  Stated for the
\* collections that hold no file twice, where every row has one place.
C11_TieOrder ==
    \A t \in Threads :
        (Answered(t) /\ \A d \in 1..Len(documents), e \in 1..Len(documents) :
                            documents[d].filename = documents[e].filename => d = e)
        => LET rs == loc[t].search_results
           IN  \A i \in 1..Len(rs), j \in 1..Len(rs) :
                  i < j
                  => /\ FracLeq(rs[j].similarity, rs[i].similarity)
                     /\ rs[i].similarity = rs[j].similarity
                          => \E a \in Places(rs[i]), b \in Places(rs[j]) :
                                /\ a # b
                                /\ \/ a[2] < b[2]
                                   \/ a[2] = b[2] /\ a[1] < b[1]

\* the words of a text, lower-cased, as search_documents compares them
WordSet(text) == Range(Split(Lower(text)))

\* the places of the chunks of docs that share a word with the question
Candidates(docs, question) ==
    {pl \in UNION {{<<d, j>> : j \in 1..Len(docs[d].chunks)} :
                        d \in 1..Len(docs)} :
        WordSet(question) \cap WordSet(docs[pl[1]].chunks[pl[2]]) # {}}

\* the evidence row of the chunk at place pl
RowAt(docs, question, pl) ==
    LET qw == WordSet(question)
        cw == WordSet(docs[pl[1]].chunks[pl[2]])
    IN  [title      |-> docs[pl[1]].title,
         content    |-> docs[pl[1]].chunks[pl[2]],
         similarity |-> Frac(Cardinality(qw \cap cw), Cardinality(qw \cup cw))]

\* rs holds min(top_k, number of candidates) rows; every row is the row of a
\* candidate and is there no more often than candidates have it; every
\* candidate that ranks above the last row is there
IsTopK(rs, docs, question) ==
    LET cands   == Candidates(docs, question)
        rows    == [pl \in cands |-> RowAt(docs, question, pl)]
        Count(v) == Cardinality({i \in 1..Len(rs) : rs[i] = v})
        Have(v)  == Cardinality({pl \in cands : rows[pl] = v})
    IN  /\ Len(rs) = Min(top_k, Cardinality(cands))
        /\ \A i \in 1..Len(rs) : Count(rs[i]) <= Have(rs[i])
        /\ \A pl \in cands :
              (rs # <<>> /\ ~FracLeq(rows[pl].similarity, rs[Len(rs)].similarity))
              => Count(rows[pl]) = Have(rows[pl])

\* C12: a search returns exactly min(top_k, number of candidate chunks)
\* rows, the highest ranked of the candidates, none repeated and none made
\* up; with no candidate it returns the empty list and the request is
\* answered, not failed.  The collection a search sees is the list of the
\* documents appended when it ran.
C12_TopK ==
    \A t \in Threads :
        (pc[t] = "q_generate" \/ Answered(t))
        => /\ \E j \in 0..Len(documents) :
                 IsTopK(loc[t].search_results,
                        SubSeq(documents, 1, Len(documents) - j),
                        loc[t].question)
           /\ (Answered(t) /\ loc[t].search_results = <<>>)
                 => resp[t].status = 200

\* a search over more than top_k candidates has returned top_k rows
C12_Witness ==
    \E t \in Threads :
        /\ pc[t] = "q_generate"
        /\ Len(loc[t].search_results) = top_k
        /\ \E k \in 0..Len(documents) :
              /\ Cardinality(Candidates(SubSeq(documents, 1, k), loc[t].question))
                    > top_k
              /\ IsTopK(loc[t].search_results, SubSeq(documents, 1, k),
                        loc[t].question)

\* the last operation on the core was retrieve / detect / statistics / ingest
Did(op) == core_out.op = op

\* the raw similarity of a stored chunk to a query
RawSimilarity(query, r) == SimilarityOf(embed(query), r.embedding)

RECURSIVE SizesLessOne(_)
SizesLessOne(clusters) ==
    IF clusters = <<>> THEN 0
    ELSE Cardinality(Head(clusters).chunk_ids) - 1 + SizesLessOne(Tail(clusters))

\* C14: the duplicate statistics of a collection state agree with the
\* clusters detect() returns for that state: total_duplicate_chunks is the
\* sum of (cluster size - 1), duplicate_percentage is
\* total_duplicate_chunks / total_chunks * 100, and the cluster total is
\* the number of clusters.
C14_StatisticsAgree ==
    Did("statistics")
    => LET clusters == detect_duplicates_in_collection(core_out.store)
           stats    == core_out.stats
           total    == Cardinality(core_out.store)
       IN  /\ stats.total_duplicate_clusters = Len(clusters)
           /\ stats.total_duplicate_chunks = SizesLessOne(clusters)
           /\ stats.duplicate_percentage[1] * total
                 = 100 * SizesLessOne(clusters) * stats.duplicate_percentage[2]

\* statistics over four chunks of which three form one cluster
C14_Witness ==
    /\ Did("statistics")
    /\ Cardinality(core_out.store) = 4
    /\ core_out.stats.total_duplicate_clusters = 1
    /\ core_out.stats.total_duplicate_chunks = 2
    /\ core_out.stats.duplicate_percentage = <<50, 1>>

\* a and b are chunks of the same section kind whose similarity is at or
\* above the duplicate threshold
DuplicatePair(a, b) ==
    /\ a # b
    /\ a.section_type = b.section_type
    /\ SimilarityOf(a.embedding, b.embedding) >= DuplicateThreshold

\* the stored chunks of a cluster
Members(cluster) == {r \in core_out.store : r.chunk_id \in cluster.chunk_ids}

\* the duplicate pairs inside a set of chunks, each pair once
PairsIn(S) == {e \in SUBSET S : \E a \in e, b \in e : e = {a, b} /\ DuplicatePair(a, b)}

RECURSIVE PairSum(_)
PairSum(pairs) ==
    IF pairs = {} THEN 0
    ELSE LET e == CHOOSE x \in pairs : TRUE
             a == CHOOSE x \in e : TRUE
             b == CHOOSE y \in e : y # a
         IN  SimilarityOf(a.embedding, b.embedding) + PairSum(pairs \ {e})

\* C15: every cluster detect() returns has at least two chunk ids and an
\* avg_similarity that is the mean similarity of the edges inside it and
\* is at least the duplicate threshold; no chunk id is in two clusters.
C15_Clusters ==
    Did("detect")
    => LET cs == core_out.clusters
       IN  /\ \A i \in 1..Len(cs) :
                 LET pairs == PairsIn(Members(cs[i]))
                 IN  /\ Cardinality(cs[i].chunk_ids) >= 2
                     /\ cs[i].cluster_size = Cardinality(cs[i].chunk_ids)
                     /\ cs[i].avg_similarity[1] * Cardinality(pairs)
                           = PairSum(pairs) * cs[i].avg_similarity[2]
                     /\ cs[i].avg_similarity[1]
                           >= DuplicateThreshold * cs[i].avg_similarity[2]
           /\ \A i \in 1..Len(cs), j \in 1..Len(cs) :
                 i # j => cs[i].chunk_ids \cap cs[j].chunk_ids = {}

\* detect() has returned a cluster with two edges and a pair of members
\* that is no edge
C15_Witness ==
    /\ Did("detect")
    /\ \E i \in 1..Len(core_out.clusters) :
          /\ core_out.clusters[i].cluster_size = 3
          /\ Cardinality(PairsIn(Members(core_out.clusters[i]))) = 2

\* the collection is exactly two chunks, of two documents, whose similarity
\* is 0.97 (the duplicate threshold being 0.92)
TwoChunksAt97(store) ==
    /\ DuplicateThreshold = 92
    /\ \E a \in store, b \in store :
          /\ store = {a, b}
          /\ a.document_id # b.document_id
          /\ SimilarityOf(a.embedding, b.embedding) = 97

\* detect() found one cluster, of both chunks and both documents / the
\* statistics report one cluster and one duplicate chunk
OneClusterOfTwo ==
    /\ Did("detect")
          => /\ Len(core_out.clusters) = 1
             /\ core_out.clusters[1].cluster_size = 2
             /\ core_out.clusters[1].chunk_ids = {r.chunk_id : r \in core_out.store}
             /\ core_out.clusters[1].document_ids
                   = {r.document_id : r \in core_out.store}
    /\ Did("statistics")
          => /\ core_out.stats.total_duplicate_clusters = 1
             /\ core_out.stats.total_duplicate_chunks = 1

C17_PairwiseMaximal ==
    Did("detect")
    => \A i \in 1..Len(core_out.clusters) :
          LET M == Members(core_out.clusters[i])
          IN  /\ \A a \in M, b \in M :
                    SimilarityOf(a.embedding, b.embedding) >= DuplicateThreshold
              /\ \A c \in core_out.store \ M :
                    \E a \in M :
                       SimilarityOf(a.embedding, c.embedding) < DuplicateThreshold

\* C17 amended: every cluster detect() returns is a connected component of
\* the duplicate pairs (chunks of the same section kind with a similarity at
\* or above the threshold): it cannot be split in two parts with no
\* duplicate pair between them, and no chunk outside it forms a duplicate
\* pair with a member.
C17_Components ==
    Did("detect")
    => \A i \in 1..Len(core_out.clusters) :
          LET M == Members(core_out.clusters[i])
          IN  /\ \A S \in SUBSET M :
                    (S # {} /\ S # M)
                    => \E a \in S, b \in M \ S : DuplicatePair(a, b)
              /\ \A c \in core_out.store \ M, a \in M : ~DuplicatePair(a, c)

\* detect() has returned a cluster of three chunks, two of which are less
\* similar to each other than the threshold
C17_Witness ==
    /\ Did("detect")
    /\ \E i \in 1..Len(core_out.clusters) :
          LET M == Members(core_out.clusters[i])
          IN  /\ Cardinality(M) = 3
              /\ \E a \in M, b \in M :
                    SimilarityOf(a.embedding, b.embedding) < DuplicateThreshold

\* the outcomes of the embedding calls made for the chunk at position p
CallsFor(p) ==
    LET calls == SelectSeq(embed_calls, LAMBDA c : c.position = p)
    IN  [i \in 1..Len(calls) |-> calls[i].ok]

\* C18: in the ingestion of a batch, a chunk whose embedding call fails is
\* retried exactly once; when the retry fails too that chunk alone is
\* dropped; every other chunk whose embedding succeeds is returned, in the
\* original order, and stored when the upsert succeeds.
C18_RetryOnceThenDrop ==
    Did("ingest")
    => LET doc      == core_out.doc
           returned == core_out.chunks
           Embedded == {p \in 0..Len(doc.chunks) - 1 :
                           \E i \in 1..Len(CallsFor(p)) : CallsFor(p)[i]}
       IN  /\ \A p \in 0..Len(doc.chunks) - 1 :
                 CallsFor(p) \in {<<>>, <<TRUE>>, <<FALSE, TRUE>>, <<FALSE, FALSE>>}
           /\ \A p \in 0..Len(doc.chunks) - 1 :
                 CallsFor(p) = <<>> <=> Normalize(doc.chunks[p + 1].content) = ""
           /\ {returned[i].position : i \in 1..Len(returned)} = Embedded
           /\ \A i \in 1..Len(returned), j \in 1..Len(returned) :
                 i < j => returned[i].position < returned[j].position
           /\ \A i \in 1..Len(returned) :
                 /\ returned[i].document_id = doc.document_id
                 /\ returned[i].content
                       = doc.chunks[returned[i].position + 1].content
                 /\ returned[i].embedding = embed(returned[i].content)
                 /\ core_out.success => returned[i] \in vector_store

\* an ingestion whose first chunk failed twice and was dropped and whose
\* second chunk was embedded at the retry, returned and stored
C18_Witness ==
    /\ Did("ingest") /\ core_out.success
    /\ Len(core_out.doc.chunks) = 2
    /\ CallsFor(0) = <<FALSE, FALSE>>
    /\ CallsFor(1) = <<FALSE, TRUE>>
    /\ Len(core_out.chunks) = 1
    /\ core_out.chunks[1] \in vector_store

\* the end of chunk c is repeated at the start of chunk d
Overlap(c, d) ==
    \E n \in 1..Min(Len(c), Len(d)) :
        SubSeq(c, Len(c) - n + 1, Len(c)) = SubSeq(d, 1, n)

\* C20: every chunk of a stored document is no longer than the target size
\* (chunk_size characters), and every two consecutive chunks of a document
\* share an overlapping span of text.
C20_SizeAndOverlap ==
    \A d \in 1..Len(documents) :
        LET chunks == documents[d].chunks
        IN  \A j \in 1..Len(chunks) :
               /\ StrLen(chunks[j]) <= chunk_size
               /\ j < Len(chunks) => Overlap(chunks[j], chunks[j + 1])

\* a text with nothing but whitespace in it
Blank(text) == text \in {"", " "}

\* C21: no chunk returned by the chunking and embedding step has empty text
\* or an empty embedding: a chunk text that is empty or whitespace-only
\* yields no chunk (a document of such texts yields none at all), and every
\* returned chunk carries an embedding of the collection's dimensionality.
C21_NoEmptyChunk ==
    Did("ingest")
    => LET doc      == core_out.doc
           returned == core_out.chunks
       IN  /\ \A i \in 1..Len(returned) :
                 /\ ~Blank(returned[i].content)
                 /\ returned[i].embedding.dim = EmbeddingDim
                 /\ returned[i].embedding.dim > 0
           /\ \A p \in 0..Len(doc.chunks) - 1 :
                 Blank(doc.chunks[p + 1].content)
                 => \A i \in 1..Len(returned) : returned[i].position # p
           /\ (\A p \in 1..Len(doc.chunks) : Blank(doc.chunks[p].content))
              => returned = <<>>

\* the ingestion of a document with an embedded chunk and a whitespace-only
\* chunk has returned the first alone; the store holds no blank record
C21_Witness ==
    /\ Did("ingest") /\ core_out.success
    /\ \E p \in 1..Len(core_out.doc.chunks) : Blank(core_out.doc.chunks[p].content)
    /\ Len(core_out.chunks) = 1
    /\ core_out.chunks[1].embedding.dim = EmbeddingDim
    /\ \A r \in vector_store : ~Blank(r.content)

\* the answers of a /query request that ends before the search
QueryRejections ==
    {[status |-> 500, error |-> "Error processing query"],
     [status |-> 400, error |-> "Please provide a question"]}

\* this step is a step of a /query request served by thread t: the request
\* is rejected, searches, or calls the backend and answers
QueryStep(t) ==
    \/ pc[t] = "idle" /\ pc'[t] = "done" /\ resp'[t] \in QueryRejections
    \/ pc[t] = "idle" /\ pc'[t] = "done" /\ resp'[t] = NoEvidence
    \/ pc[t] = "idle" /\ pc'[t] = "q_generate"
    \/ pc[t] = "q_generate" /\ pc'[t] # "q_generate"

\* the stored collection: the document list, its persisted form, the files
Collection == <<documents, disk, papers>>

\* C22: retrieval and answer generation are read-only: no step of a query
\* request, whether the request completes or fails and whatever the other
\* requests are doing, changes the stored collection (the document list and
\* its persisted form).
C22_ReadOnly ==
    [][\A t \in Threads : QueryStep(t) => UNCHANGED Collection]_vars

\* a query has been answered from a non-empty collection while an upload of
\* another thread had appended its document and not yet saved it
C22_Witness ==
    \E t \in Threads, u \in Threads :
        /\ Answered(t) /\ loc[t].search_results # <<>>
        /\ pc[u] = "u_save"
        /\ disk # Written(documents)

\* thread t is serving a request that has not been answered yet
InProgress(t) == pc[t] \notin {"idle", "done"}

\* thread t holds the answer of its request; when the request called the
\* generation backend and the call failed, the answer says so
Reported(t) ==
    /\ pc[t] = "done" /\ resp[t] # NoResp
    /\ BackendFailed(t)
          => resp[t].status = 200 /\ resp[t].answer \in FailureAnswers

UploadsCompleted ==
    \A t \in Threads : pc[t] \notin {"u_extract", "u_add", "u_save", "u_flush"}

\* C24: once the upload requests have all completed, whatever their
\* interleaving was, and no save has logged an error, every document of the
\* in-memory list has its full chunk list, documents.json holds exactly that
\* list, and loading the file at a restart gives the same documents.
C24_PersistedAfterUploads ==
    (UploadsCompleted /\ ~logged)
    => /\ \A i \in 1..Len(documents) :
             documents[i].chunks = create_chunks(documents[i].content)
       /\ documents # <<>> => disk = Written(documents)
       /\ load_documents(disk) = documents

\* the error answers of POST /upload
UploadErrors ==
    {[status |-> 400, error |-> "No file provided"],
     [status |-> 400, error |-> "Please select a PDF file"],
     [status |-> 500, error |-> "Error uploading document: save"],
     [status |-> 500, error |-> "Error uploading document: read"]}

\* in this step the upload request of thread t is answered with an error
UploadFails(t) ==
    pc[t] # "done" /\ pc'[t] = "done" /\ resp'[t] \in UploadErrors

\* the statistics of the collection, as /stats and the index page count them
CollectionStats(docs) == <<Len(docs), TotalChunks(docs)>>

\* C25: an upload request that is answered with an error (no file part, an
\* empty file name, a file name not ending in .pdf, a file that cannot be
\* stored or read) leaves the document collection, its persisted form and
\* its statistics as they were: the request is answered before add_document
\* is reached, and neither the answering step nor the step that stored the
\* file before it changes them.
C25_FailedUpload ==
    [][\A t \in Threads :
          /\ UploadFails(t)
                => /\ pc[t] \in {"idle", "u_extract"}
                   /\ documents' = documents /\ disk' = disk
                   /\ CollectionStats(documents') = CollectionStats(documents)
          /\ (pc[t] = "idle" /\ pc'[t] = "u_extract")
                => documents' = documents /\ disk' = disk]_vars

\* an upload whose file was stored and could not be read has been answered
\* 500 while the collection holds the document of an earlier upload
C25_Witness ==
    \E t \in Threads :
        /\ pc[t] = "done"
        /\ resp[t] = [status |-> 500, error |-> "Error uploading document: read"]
        /\ papers["B.PDF"] = BadPdf
        /\ documents # <<>>

\* a text of whitespace characters only, the empty text included
IsBlank(s) == \A i \in 1..Len(s) : s[i] \in Whitespace

\* C26: a query request whose question is missing (taken as the empty text
\* by data.get), empty or whitespace-only is rejected with a 400 error before
\* any retrieval: its answer has no answer, sources or confidence, no prompt
\* was passed to the generation backend, and no request that reached the
\* search or the backend has a blank question.
C26_BlankQuestionRejected ==
    \A t \in Threads :
        /\ loc[t].kind = "rejected"
              => /\ IsBlank(loc[t].received)
                 /\ pc[t] = "done"
                 /\ resp[t] = [status |-> 400, error |-> "Please provide a question"]
                 /\ sent[t] = NoPrompt
        /\ loc[t].kind \in {"query", "answered"} => ~IsBlank(loc[t].question)
        /\ sent[t] # NoPrompt => ~IsBlank(sent[t].question)

\* a whitespace-only question has been rejected with 400 while the
\* collection holds chunks a search could have returned
C26_Witness ==
    \E t \in Threads :
        /\ pc[t] = "done" /\ loc[t].kind = "rejected"
        /\ loc[t].received = <<" ">>
        /\ resp[t].status = 400
        /\ TotalChunks(documents) > 0


\* the words of the chunks of a list, in the order of the list
RECURSIVE WordsOf(_)
WordsOf(chunks) ==
    IF chunks = <<>> THEN <<>>
    ELSE Split(Head(chunks)) \o WordsOf(Tail(chunks))

\* C27: create_chunks partitions the word sequence of the content: for every
\* content and chunk size, the words of the returned chunks, in order, are
\* exactly the whitespace-separated words of the content (none lost,
\* duplicated or reordered), every chunk holds a word, and every chunk but
\* the last reaches the chunk size, counted as the code counts it: the
\* characters of the chunk and one more for its last word.
C27_WordPartition ==
    call.state = "returned" =>
        /\ WordsOf(call.chunks) = Split(call.content)
        /\ \A i \in 1..Len(call.chunks) : Split(call.chunks[i]) # <<>>
        /\ \A i \in 1..(Len(call.chunks) - 1) :
              StrLen(call.chunks[i]) + 1 >= call.chunk_size

\* a content with a line break has been cut into a chunk of two words and a
\* last chunk below the chunk size
C27_Witness ==
    /\ call.state = "returned"
    /\ "\n" \in Range(call.content)
    /\ Len(call.chunks) = 2
    /\ Len(Split(call.chunks[1])) = 2
    /\ StrLen(call.chunks[2]) + 1 < call.chunk_size


\* the six component tests in the order the claim names them
TestOrder ==
    <<"test_document_processing", "test_chunking_and_embedding",
      "test_vector_store", "test_retrieval", "test_answer_generation",
      "test_duplicate_detection">>

\* the tests called so far are the first of TestOrder, each called once;
\* each has one result, True exactly when it returned True; the suite
\* returns after all six, True exactly when all six returned True
SuiteRecorded ==
    suite.pc \in {"loop", "returned"} =>
        /\ Len(suite.calls) <= 6
        /\ \A k \in 1..Len(suite.calls) : suite.calls[k][1] = TestOrder[k]
        /\ Len(suite.results) = Len(suite.calls)
        /\ \A k \in 1..Len(suite.calls) :
              suite.results[k][2] = (suite.calls[k][2] = "True")
        /\ suite.pc = "returned" =>
              /\ Len(suite.calls) = 6
              /\ suite.returned =
                    (\A k \in 1..6 : suite.calls[k][2] = "True")

\* C28: run_full_test_suite always terminates after running all six
\* component tests in the fixed order document processing, chunking, vector
\* store, retrieval, answer generation, duplicate detection; a test that
\* returns False or raises is recorded as failed and the later tests still
\* run; the suite returns True exactly when each of the six returned True.
C28_FullTestSuite ==
    /\ []SuiteRecorded
    /\ (suite.pc = "loop") ~> (suite.pc = "returned")

\* a suite has returned False after a run in which the first test raised,
\* the third returned False and the tests after it returned True
C28_Witness ==
    /\ suite.pc = "returned"
    /\ suite.calls[1][2] = "raised"
    /\ suite.calls[3][2] = "False"
    /\ \A k \in 4..6 : suite.calls[k][2] = "True"
    /\ ~suite.returned

=============================================================================
